---- MODULE Spec2Model ----
(***************************************************************************)
(* Enrollment lifecycle and review moderation of the Skillmentor backend:  *)
(* the Express handlers of routes/enrollments.js, routes/users.js          *)
(* (DELETE), routes/courses.js (GET /:id, DELETE), the review routes and   *)
(* the moderation route of the admin routes, over the Mongoose models      *)
(* Enrollment, Review, Course and User.  Every handler is split at its     *)
(* awaits: one step per database call together with the synchronous code   *)
(* that follows it.                                                        *)
(***************************************************************************)
EXTENDS Integers, Sequences, FiniteSets, TLC

(* ---------------------------- bounds ----------------------------------- *)
\* last value of the logical clock read by `new Date()`
MaxTime == 5
\* number of ObjectIds the Enrollment collection can hand out
MaxDocs == 2

\* number of ObjectIds the Review collection can hand out
MaxReviews == 2

\* last value of helpfulVotes a MarkHelpful request may start from
MaxVotes == 2

\* number of reviews in the stores the read routes are checked on
MaxStored == 3

Students == {"s1"}
Admins == {"a1"}
Users == Students \cup Admins
\* an account that sends requests on other people's reviews only
Guests == {"s2"}
Courses == {"c1"}
\* concurrent request slots of the event loop
Reqs == {"r1", "r2"}
\* the accounts that send Enroll requests
Enrollers == Students
ModuleIndices == {1}
DocIds == 1..MaxDocs
\* an ObjectId that names no document
NoId == 0

NoUser == "nobody"
NoCourse == "nocourse"
\* a Date field holding null
NoDate == 0

(* ------------------------- JavaScript values --------------------------- *)
JsUndefined == [t |-> "undefined", n |-> 0]
JsNull == [t |-> "null", n |-> 0]
JsNum(i) == [t |-> "number", n |-> i]
\* a string that does not parse as a number
JsStr == [t |-> "string", n |-> 0]

\* ToNumber(v) is NaN
IsNaN(v) == v.t \in {"undefined", "string"}
\* v < k and v > k with JavaScript's numeric coercion (null -> 0, NaN never)
JsLt(v, k) == ~IsNaN(v) /\ v.n < k
JsGt(v, k) == ~IsNaN(v) /\ v.n > k

\* mongoose SchemaNumber cast: null stays null, a non-numeric string fails
CastFails(v) == v.t = "string"
CastNumber(v) == IF v.t = "number" THEN v ELSE JsNull

\* the min/max validators of the progress path; they skip null
ProgressValid(v) == v = JsNull \/ (v.n >= 0 /\ v.n <= 100)

\* the range check testing only for a missing progress
ProgressRejectedOnlyMissing(p) == p = JsUndefined

\* progress === undefined || progress < 0 || progress > 100
ProgressRejected(p) == p = JsUndefined \/ JsLt(p, 0) \/ JsGt(p, 100)

\* request bodies of PUT /:id/progress
ProgressInputs ==
    {JsUndefined, JsNull, JsStr, JsNum(-1), JsNum(50), JsNum(100), JsNum(101)}
ModuleInputs == {JsUndefined} \cup {JsNum(i) : i \in ModuleIndices}

VARIABLES users, courses, enrollments, reviews, req, res, now, nextId,
          nextReviewId, serial

vars ==
    <<users, courses, enrollments, reviews, req, res, now, nextId, nextReviewId,
      serial>>

role(u) == IF u \in Admins THEN "admin" ELSE "student"

(* ------------------------- Enrollment schema --------------------------- *)
\* new Enrollment({student, course}) with the schema defaults
NewEnrollment(i, s, c, t) ==
    [id |-> i, student |-> s, course |-> c,
     progress |-> JsNum(0),
     completedModules |-> <<>>,
     startDate |-> t,
     completionDate |-> NoDate,
     lastAccessedAt |-> t,
     isActive |-> TRUE]

\* placeholder for "no document held by this request"
NoEnrollment ==
    [id |-> 0, student |-> NoUser, course |-> NoCourse,
     progress |-> JsNull,
     completedModules |-> <<>>,
     startDate |-> NoDate,
     completionDate |-> NoDate,
     lastAccessedAt |-> NoDate,
     isActive |-> FALSE]

\* pre('save') without its else-branch: completionDate is never cleared
PreSaveNeverClears(d, t) ==
    LET c == IF d.progress = JsNum(100) /\ d.completionDate = NoDate
             THEN [d EXCEPT !.completionDate = t]
             ELSE d
    IN [c EXCEPT !.lastAccessedAt = t]

\* enrollmentSchema.pre('save')
PreSave(d, t) ==
    LET c == IF d.progress = JsNum(100) /\ d.completionDate = NoDate
             THEN [d EXCEPT !.completionDate = t]
             ELSE IF JsLt(d.progress, 100)
                  THEN [d EXCEPT !.completionDate = NoDate]
                  ELSE d
    IN [c EXCEPT !.lastAccessedAt = t]

\* the paths mongoose marks modified: those whose value differs from the
\* loaded one (completedModules travels as a $push, see Persist)
ScalarPaths == {"progress", "startDate", "completionDate", "lastAccessedAt", "isActive"}
ModifiedPaths(loaded, cur) == {p \in ScalarPaths : loaded[p] # cur[p]}

\* the update document save() sends: the values of the modified paths only
Delta(cur, mod) ==
    [NoEnrollment EXCEPT
       !.id = cur.id,
       !.progress = IF "progress" \in mod THEN cur.progress ELSE @,
       !.startDate = IF "startDate" \in mod THEN cur.startDate ELSE @,
       !.completionDate = IF "completionDate" \in mod THEN cur.completionDate ELSE @,
       !.lastAccessedAt = IF "lastAccessedAt" \in mod THEN cur.lastAccessedAt ELSE @,
       !.isActive = IF "isActive" \in mod THEN cur.isActive ELSE @]

\* save() writing every path of the document it holds
PersistAllPaths(stored, cur, mod, push) ==
    [cur EXCEPT !.student = stored.student, !.course = stored.course,
                !.completedModules = stored.completedModules \o push]

\* updateOne({_id}, {$set: modified paths, $push: completedModules})
Persist(stored, cur, mod, push) ==
    [stored EXCEPT
       !.progress = IF "progress" \in mod THEN cur.progress ELSE @,
       !.startDate = IF "startDate" \in mod THEN cur.startDate ELSE @,
       !.completionDate = IF "completionDate" \in mod THEN cur.completionDate ELSE @,
       !.lastAccessedAt = IF "lastAccessedAt" \in mod THEN cur.lastAccessedAt ELSE @,
       !.isActive = IF "isActive" \in mod THEN cur.isActive ELSE @,
       !.completedModules = @ \o push]

\* the collection without the unique index
NoUniqueIndex(s, c) == TRUE

\* the unique index {student: 1, course: 1}
UniqueIndexAllows(s, c) ==
    ~\E d \in enrollments : d.student = s /\ d.course = c

\* the duplicate check never finding the module
ExistingModuleNever(d, m) == FALSE

\* enrollment.completedModules.find(m => m.moduleIndex === completedModuleIndex)
ExistingModule(d, m) ==
    \E k \in 1..Len(d.completedModules) :
        m = JsNum(d.completedModules[k].moduleIndex)

\* the reactivation branch taken for every existing enrollment
AlreadyEnrolledNever(d) == FALSE

\* if (existingEnrollment.isActive)
AlreadyEnrolled(d) == d.isActive

\* the ownership check letting administrators through
NotOwnerAdminExempt(d, u) == d.student # u /\ role(u) # "admin"

\* enrollment.student.toString() !== req.user.id
NotOwner(d, u) == d.student # u

ById(i) == {d \in enrollments : d.id = i}
ByPair(s, c) == {d \in enrollments : d.student = s /\ d.course = c}

(* --------------------------- Review schema ----------------------------- *)
ReviewIds == 1..MaxReviews

\* String.prototype.trim on a string given as its sequence of characters
RECURSIVE TrimStart(_)
TrimStart(str) ==
    IF str # <<>> /\ Head(str) = " " THEN TrimStart(Tail(str)) ELSE str

RECURSIVE TrimEnd(_)
TrimEnd(str) ==
    IF str # <<>> /\ str[Len(str)] = " "
    THEN TrimEnd(SubSeq(str, 1, Len(str) - 1))
    ELSE str

Trim(str) == TrimEnd(TrimStart(str))

\* a review document as Review.create({student, course, rating, comment})
\* stores it: approved, no votes, no reports
NewReview(i, s, c, rating, comment, t) ==
    [id |-> i, student |-> s, course |-> c,
     rating |-> rating,
     comment |-> comment,
     isApproved |-> TRUE,
     helpfulVotes |-> 0,
     reportedBy |-> <<>>,
     createdAt |-> t]

ReviewById(i) == {v \in reviews : v.id = i}
ReviewsByPair(s, c) == {v \in reviews : v.student = s /\ v.course = c}

\* the paths of a review a handler assigns
ReviewPaths == {"isApproved", "reportedBy", "rating", "comment", "helpfulVotes"}
ModifiedReviewPaths(loaded, cur) == {p \in ReviewPaths : loaded[p] # cur[p]}

\* updateOne({_id}, {$set: modified paths, $push: reportedBy})
PersistReview(stored, cur, mod, push) ==
    [stored EXCEPT
       !.isApproved = IF "isApproved" \in mod THEN cur.isApproved ELSE @,
       !.rating = IF "rating" \in mod THEN cur.rating ELSE @,
       !.comment = IF "comment" \in mod THEN cur.comment ELSE @,
       !.helpfulVotes = IF "helpfulVotes" \in mod THEN cur.helpfulVotes ELSE @,
       !.reportedBy = (IF "reportedBy" \in mod THEN cur.reportedBy ELSE @) \o push]

\* the body of a response that carries a review listing and statistics;
\* rating is held in tenths
NoData ==
    [reviews |-> {}, order |-> <<>>, total |-> 0, rating |-> 0,
     reviewCount |-> 0]

(* ----------------------------- requests -------------------------------- *)
\* a request slot with no handler running
IdleReq ==
    [op |-> "none", pc |-> "idle", user |-> NoUser, course |-> NoCourse,
     target |-> NoUser, loadedActive |-> FALSE, cmi |-> JsUndefined,
     doc |-> NoEnrollment, mod |-> {}, push |-> <<>>,
     review |-> NoId, rating |-> 0, comment |-> <<>>, action |-> "",
     approve |-> FALSE, votes |-> 0, reports |-> <<>>, sort |-> "",
     data |-> NoData]

\* res.status(s).json(...); e names the exception the catch block caught,
\* if any
Response(s, m, e) == [status |-> s, msg |-> m, err |-> e, data |-> NoData]
\* res.status(200).json({success: true, data})
DataResponse(d) == [status |-> 200, msg |-> "", err |-> "", data |-> d]
\* no response is being written
NoResponse == Response(0, "", "")

\* the catch block of every handler: 500 'Server error'
ServerError(e) == Response(500, "Server error", e)

Free(r) == req[r].pc = "idle"
NoneInFlight == \A r \in Reqs : Free(r)

\* the event loop runs the next callback once the previous one has returned
\* and its response is written
Ready == res = NoResponse

\* slot r can take a new request; a serial server takes one only when no
\* handler is between two awaits
CanStart(r) == Ready /\ Free(r) /\ (serial => NoneInFlight)


\* the store after the server has connected: every account and course
\* exists, nobody is enrolled
Start0 ==
    /\ users = Users
    /\ courses = [c \in Courses |-> [exists |-> TRUE, isActive |-> TRUE]]
    /\ enrollments = {}
    /\ reviews = {}
    /\ req = [r \in Reqs |-> IdleReq]
    /\ res = NoResponse
    /\ now = 1
    /\ nextId = 1
    /\ nextReviewId = 1

\* requests are served concurrently
Init == Start0 /\ serial = FALSE

\* requests are served one at a time
SeqInit == Start0 /\ serial = TRUE


\* the handler of slot r sends its response and ends
Reply(r, response) ==
    /\ req' = [req EXCEPT ![r] = IdleReq]
    /\ res' = response

\* the handler of slot r reaches its next await holding q
Await(r, q) ==
    /\ req' = [req EXCEPT ![r] = q]
    /\ res' = res

(* ------------------- POST /api/enrollments (Enroll) -------------------- *)
\* the course check testing only for a missing course
CourseUnavailableOnlyAbsent(c) == ~courses[c].exists

\* if (!course || !course.isActive)
CourseUnavailable(c) == ~courses[c].exists \/ ~courses[c].isActive

\* courseId check and Course.findById
EnrollFindCourse(r, u, c) ==
    /\ CanStart(r)
    /\ u \in users
    /\ IF c = NoCourse
       THEN Reply(r, Response(400, "Course ID is required", ""))
       ELSE IF CourseUnavailable(c)
            THEN Reply(r, Response(404, "Course not found or inactive", ""))
            ELSE Await(r, [IdleReq EXCEPT !.op = "Enroll", !.pc = "findExisting",
                                          !.user = u, !.course = c])
    /\ UNCHANGED <<users, courses, enrollments, reviews, now, nextId, nextReviewId,
                   serial>>

\* Enrollment.findOne({student, course}) and the branch on its result
EnrollFindExisting(r) ==
    /\ Ready
    /\ req[r].op = "Enroll"
    /\ req[r].pc = "findExisting"
    /\ now <= MaxTime
    /\ LET q == req[r]
           found == ByPair(q.user, q.course)
       IN IF found = {}
          THEN /\ Await(r, [q EXCEPT !.pc = "create",
                                     !.doc = PreSave(NewEnrollment(NoId, q.user,
                                                                   q.course, now), now)])
               /\ now' = now + 1
          ELSE \E d \in found :
                 IF AlreadyEnrolled(d)
                 THEN /\ Reply(r, Response(400, "Already enrolled in this course", ""))
                      /\ now' = now
                 ELSE LET cur == PreSave([d EXCEPT !.isActive = TRUE,
                                                    !.startDate = now], now)
                          mod == ModifiedPaths(d, cur)
                      IN /\ Await(r, [q EXCEPT !.pc = "save", !.mod = mod,
                                               !.doc = Delta(cur, mod)])
                         /\ now' = now + 1
    /\ UNCHANGED <<users, courses, enrollments, reviews, nextId, nextReviewId,
                   serial>>

\* document.save(): the update is applied to the stored document, or fails
\* when no document has that _id any more
Save(r, ok) ==
    LET q == req[r]
        stored == ById(q.doc.id)
    IN IF stored = {}
       THEN /\ Reply(r, ServerError("DocumentNotFoundError"))
            /\ enrollments' = enrollments
       ELSE /\ enrollments' = (enrollments \ stored) \cup
                 {Persist(d, q.doc, q.mod, q.push) : d \in stored}
            /\ Reply(r, ok)

\* existingEnrollment.save() of the reactivation branch
EnrollSave(r) ==
    /\ Ready
    /\ req[r].op = "Enroll"
    /\ req[r].pc = "save"
    /\ Save(r, Response(200, "Re-enrolled in course successfully", ""))
    /\ UNCHANGED <<users, courses, reviews, now, nextId, nextReviewId,
                   serial>>

\* Enrollment.create({student, course}) against the unique index
EnrollCreate(r) ==
    /\ Ready
    /\ req[r].op = "Enroll"
    /\ req[r].pc = "create"
    /\ IF UniqueIndexAllows(req[r].user, req[r].course)
       THEN /\ nextId <= MaxDocs
            /\ enrollments' = enrollments \cup {[req[r].doc EXCEPT !.id = nextId]}
            /\ nextId' = nextId + 1
            /\ Reply(r, Response(201, "Enrolled in course successfully", ""))
       ELSE /\ Reply(r, ServerError("E11000"))
            /\ UNCHANGED <<enrollments, nextId>>
    /\ UNCHANGED <<users, courses, reviews, now, nextReviewId, serial>>

(* ------------- PUT /api/enrollments/:id/progress (UpdateProgress) ------ *)
\* body validation, Enrollment.findById, ownership check, field updates
UpdateProgressFind(r, u, i, p, m) ==
    /\ CanStart(r)
    /\ u \in users
    /\ now <= MaxTime
    /\ IF ProgressRejected(p)
       THEN /\ Reply(r, Response(400, "Progress must be between 0 and 100", ""))
            /\ now' = now
       ELSE IF ById(i) = {}
       THEN /\ Reply(r, Response(404, "Enrollment not found", ""))
            /\ now' = now
       ELSE LET d == CHOOSE e \in ById(i) : TRUE
            IN IF NotOwner(d, u)
               THEN /\ Reply(r, Response(403, "Access denied", ""))
                    /\ now' = now
               ELSE IF CastFails(p) \/ ~ProgressValid(CastNumber(p))
               THEN /\ Reply(r, ServerError("ValidationError"))
                    /\ now' = now
               ELSE LET push == IF m = JsUndefined \/ ExistingModule(d, m)
                                THEN <<>>
                                ELSE <<[moduleIndex |-> m.n, completedAt |-> now]>>
                        cur == PreSave([d EXCEPT !.progress = CastNumber(p),
                                                 !.lastAccessedAt = now], now)
                        mod == ModifiedPaths(d, cur)
                    IN /\ Await(r, [IdleReq EXCEPT !.op = "UpdateProgress",
                                                   !.pc = "save", !.user = u,
                                                   !.cmi = m,
                                                   !.mod = mod, !.push = push,
                                                   !.doc = Delta(cur, mod)])
                       /\ now' = now + 1
    /\ UNCHANGED <<users, courses, enrollments, reviews, nextId, nextReviewId,
                   serial>>

\* enrollment.save()
UpdateProgressSave(r) ==
    /\ Ready
    /\ req[r].op = "UpdateProgress"
    /\ req[r].pc = "save"
    /\ Save(r, Response(200, "Progress updated successfully", ""))
    /\ UNCHANGED <<users, courses, reviews, now, nextId, nextReviewId,
                   serial>>

(* ----------------- DELETE /api/enrollments/:id (Unenroll) -------------- *)
\* Enrollment.findById, ownership check, isActive = false
UnenrollFind(r, u, i) ==
    /\ CanStart(r)
    /\ u \in users
    /\ now <= MaxTime
    /\ IF ById(i) = {}
       THEN /\ Reply(r, Response(404, "Enrollment not found", ""))
            /\ now' = now
       ELSE LET d == CHOOSE e \in ById(i) : TRUE
            IN IF NotOwner(d, u)
               THEN /\ Reply(r, Response(403, "Access denied", ""))
                    /\ now' = now
               ELSE LET cur == PreSave([d EXCEPT !.isActive = FALSE], now)
                        mod == ModifiedPaths(d, cur)
                    IN /\ Await(r, [IdleReq EXCEPT !.op = "Unenroll", !.pc = "save",
                                                   !.user = u, !.mod = mod,
                                                   !.doc = Delta(cur, mod)])
                       /\ now' = now + 1
    /\ UNCHANGED <<users, courses, enrollments, reviews, nextId, nextReviewId,
                   serial>>

\* Unenroll removing the document instead of saving it
UnenrollSaveRemoves(r) ==
    /\ Ready
    /\ req[r].op = "Unenroll"
    /\ req[r].pc = "save"
    /\ enrollments' = enrollments \ ById(req[r].doc.id)
    /\ Reply(r, Response(200, "Unenrolled from course successfully", ""))
    /\ UNCHANGED <<users, courses, reviews, now, nextId, nextReviewId,
                   serial>>

\* enrollment.save()
UnenrollSave(r) ==
    /\ Ready
    /\ req[r].op = "Unenroll"
    /\ req[r].pc = "save"
    /\ Save(r, Response(200, "Unenrolled from course successfully", ""))
    /\ UNCHANGED <<users, courses, reviews, now, nextId, nextReviewId,
                   serial>>

(* --------------------- DELETE /api/users/:id --------------------------- *)
\* User.findById and the admin check
DeleteUserFind(r, t) ==
    /\ CanStart(r)
    /\ IF t \notin users
       THEN Reply(r, Response(404, "User not found", ""))
       ELSE IF role(t) = "admin"
            THEN Reply(r, Response(400, "Cannot delete admin users", ""))
            ELSE Await(r, [IdleReq EXCEPT !.op = "DeleteUser",
                                          !.pc = "deleteEnrollments", !.target = t])
    /\ UNCHANGED <<users, courses, enrollments, reviews, now, nextId, nextReviewId,
                   serial>>

\* Enrollment.deleteMany({student})
DeleteUserEnrollments(r) ==
    /\ Ready
    /\ req[r].op = "DeleteUser"
    /\ req[r].pc = "deleteEnrollments"
    /\ enrollments' = {d \in enrollments : d.student # req[r].target}
    /\ Await(r, [req[r] EXCEPT !.pc = "deleteUser"])
    /\ UNCHANGED <<users, courses, reviews, now, nextId, nextReviewId,
                   serial>>

\* User.findByIdAndDelete
DeleteUserDoc(r) ==
    /\ Ready
    /\ req[r].op = "DeleteUser"
    /\ req[r].pc = "deleteUser"
    /\ users' = users \ {req[r].target}
    /\ Reply(r, Response(200, "User deleted successfully", ""))
    /\ UNCHANGED <<courses, enrollments, reviews, now, nextId, nextReviewId,
                   serial>>

(* --------------------- DELETE /api/courses/:id ------------------------- *)
\* Course.findById
DeleteCourseFind(r, c) ==
    /\ CanStart(r)
    /\ IF ~courses[c].exists
       THEN Reply(r, Response(404, "Course not found", ""))
       ELSE Await(r, [IdleReq EXCEPT !.op = "DeleteCourse",
                                     !.pc = "countEnrollments", !.course = c,
                                     !.loadedActive = courses[c].isActive])
    /\ UNCHANGED <<users, courses, enrollments, reviews, now, nextId, nextReviewId,
                   serial>>

\* the course handler hard-deleting whatever the count
DeleteCourseCountIgnored(r) ==
    /\ Ready
    /\ req[r].op = "DeleteCourse"
    /\ req[r].pc = "countEnrollments"
    /\ Await(r, [req[r] EXCEPT !.pc = "deleteCourse"])
    /\ UNCHANGED <<users, courses, enrollments, reviews, now, nextId, nextReviewId,
                   serial>>

\* Enrollment.countDocuments({course}) and the branch on the count
DeleteCourseCount(r) ==
    /\ Ready
    /\ req[r].op = "DeleteCourse"
    /\ req[r].pc = "countEnrollments"
    /\ LET enrollmentCount ==
             Cardinality({d \in enrollments : d.course = req[r].course})
       IN Await(r, [req[r] EXCEPT !.pc =
            IF enrollmentCount > 0 THEN "saveCourse" ELSE "deleteCourse"])
    /\ UNCHANGED <<users, courses, enrollments, reviews, now, nextId, nextReviewId,
                   serial>>

\* course.isActive = false; course.save()
DeleteCourseSave(r) ==
    /\ Ready
    /\ req[r].op = "DeleteCourse"
    /\ req[r].pc = "saveCourse"
    /\ LET q == req[r]
       IN IF ~q.loadedActive
          THEN /\ Reply(r, Response(200, "Course deactivated successfully", ""))
               /\ courses' = courses
          ELSE IF ~courses[q.course].exists
          THEN /\ Reply(r, ServerError("DocumentNotFoundError"))
               /\ courses' = courses
          ELSE /\ courses' = [courses EXCEPT ![q.course].isActive = FALSE]
               /\ Reply(r, Response(200, "Course deactivated successfully", ""))
    /\ UNCHANGED <<users, enrollments, reviews, now, nextId, nextReviewId,
                   serial>>

\* Course.findByIdAndDelete
DeleteCourseDoc(r) ==
    /\ Ready
    /\ req[r].op = "DeleteCourse"
    /\ req[r].pc = "deleteCourse"
    /\ courses' = [courses EXCEPT ![req[r].course] =
                      [exists |-> FALSE, isActive |-> FALSE]]
    /\ Await(r, [req[r] EXCEPT !.pc = "deleteReviews"])
    /\ UNCHANGED <<users, enrollments, reviews, now, nextId, nextReviewId,
                   serial>>

\* Review.deleteMany({course})
DeleteCourseReviews(r) ==
    /\ Ready
    /\ req[r].op = "DeleteCourse"
    /\ req[r].pc = "deleteReviews"
    /\ reviews' = {v \in reviews : v.course # req[r].course}
    /\ Reply(r, Response(200, "Course deleted successfully", ""))
    /\ UNCHANGED <<users, courses, enrollments, now, nextId, nextReviewId,
                   serial>>

(* ----------------------- POST /api/reviews (CreateReview) -------------- *)
\* request bodies of POST /api/reviews
RatingInputs == {0, 3, 5}
CommentInputs ==
    {<<"o", "k", " ">>, <<" ", "g", "o", "o", "d", " ", "c", "o", "u", "r", "s", "e">>}

\* body('rating').isInt({min: 1, max: 5})
RatingValid(x) == x >= 1 /\ x <= 5
\* body('comment').trim().isLength({min: 10, max: 1000})
CommentValid(str) == Len(Trim(str)) >= 10 /\ Len(Trim(str)) <= 1000

\* the request bodies that pass validateReviewCreation
ValidRatings == {x \in RatingInputs : RatingValid(x)}
ValidComments == {t \in CommentInputs : CommentValid(t)}

\* the enrollment check ignoring isActive
AnyEnrollment(s, c) == ByPair(s, c)

\* Enrollment.findOne({student, course, isActive: true})
ActiveEnrollment(s, c) == {d \in ByPair(s, c) : d.isActive}

\* validateReviewCreation, Course.findById and the course check
CreateReviewFindCourse(r, u, c, rating, comment) ==
    /\ CanStart(r)
    /\ u \in users
    /\ IF ~RatingValid(rating) \/ ~CommentValid(comment)
       THEN Reply(r, Response(400, "Validation failed", ""))
       ELSE IF CourseUnavailable(c)
            THEN Reply(r, Response(404, "Course not found", ""))
            ELSE Await(r, [IdleReq EXCEPT !.op = "CreateReview",
                                          !.pc = "findEnrollment",
                                          !.user = u, !.course = c,
                                          !.rating = rating,
                                          !.comment = Trim(comment)])
    /\ UNCHANGED <<users, courses, enrollments, reviews, now, nextId,
                   nextReviewId, serial>>

\* Enrollment.findOne for the active enrollment of the author
CreateReviewFindEnrollment(r) ==
    /\ Ready
    /\ req[r].op = "CreateReview"
    /\ req[r].pc = "findEnrollment"
    /\ IF ActiveEnrollment(req[r].user, req[r].course) = {}
       THEN Reply(r, Response(400,
                "You must be enrolled in this course to leave a review", ""))
       ELSE Await(r, [req[r] EXCEPT !.pc = "findExisting"])
    /\ UNCHANGED <<users, courses, enrollments, reviews, now, nextId,
                   nextReviewId, serial>>

\* Review.findOne({student, course}): the duplicate check
CreateReviewFindExisting(r) ==
    /\ Ready
    /\ req[r].op = "CreateReview"
    /\ req[r].pc = "findExisting"
    /\ IF ReviewsByPair(req[r].user, req[r].course) # {}
       THEN Reply(r, Response(400, "You have already reviewed this course", ""))
       ELSE Await(r, [req[r] EXCEPT !.pc = "create"])
    /\ UNCHANGED <<users, courses, enrollments, reviews, now, nextId,
                   nextReviewId, serial>>

\* Review.create({student, course, rating, comment})
CreateReviewCreate(r) ==
    /\ Ready
    /\ req[r].op = "CreateReview"
    /\ req[r].pc = "create"
    /\ nextReviewId <= MaxReviews
    /\ reviews' = reviews \cup
         {NewReview(nextReviewId, req[r].user, req[r].course, req[r].rating,
                    req[r].comment, now)}
    /\ nextReviewId' = nextReviewId + 1
    /\ Reply(r, Response(201, "Review created successfully", ""))
    /\ UNCHANGED <<users, courses, enrollments, now, nextId, serial>>

(* ------------------ POST /api/reviews/:id/report (ReportReview) -------- *)
\* request bodies of POST /api/reviews/:id/report
ReasonInputs == {<<>>, <<" ">>, <<"s", "p", "a", "m", " ">>}

\* the duplicate check never finding a report
ExistingReportNever(v, u) == FALSE

\* review.reportedBy.find(report => report.user.toString() === req.user._id.toString())
ExistingReport(v, u) ==
    \E k \in 1..Len(v.reportedBy) : v.reportedBy[k].user = u

\* the values a request holds for the paths it modified
ReviewValues(q) ==
    [isApproved |-> q.approve, reportedBy |-> <<>>, rating |-> q.rating,
     comment |-> q.comment, helpfulVotes |-> q.votes]

\* review.save(): the update is applied to the stored review, or fails when
\* no review has that _id any more
SaveReview(r, cur, ok) ==
    LET q == req[r]
        stored == ReviewById(q.review)
    IN IF stored = {}
       THEN /\ Reply(r, ServerError("DocumentNotFoundError"))
            /\ reviews' = reviews
       ELSE /\ reviews' = (reviews \ stored) \cup
                 {PersistReview(v, cur, q.mod, q.reports) : v \in stored}
            /\ Reply(r, ok)

\* reason check, Review.findById, duplicate check, reportedBy.push
ReportFind(r, u, i, reason) ==
    /\ CanStart(r)
    /\ u \in users
    /\ IF reason = <<>> \/ Len(Trim(reason)) = 0
       THEN Reply(r, Response(400, "Report reason is required", ""))
       ELSE IF ReviewById(i) = {}
       THEN Reply(r, Response(404, "Review not found", ""))
       ELSE LET v == CHOOSE w \in ReviewById(i) : TRUE
            IN IF ExistingReport(v, u)
               THEN Reply(r, Response(400, "You have already reported this review", ""))
               ELSE Await(r, [IdleReq EXCEPT
                                !.op = "Report", !.pc = "save", !.user = u,
                                !.review = i,
                                !.reports = <<[user |-> u, reason |-> Trim(reason)]>>])
    /\ UNCHANGED <<users, courses, enrollments, reviews, now, nextId,
                   nextReviewId, serial>>

\* review.save()
ReportSave(r) ==
    /\ Ready
    /\ req[r].op = "Report"
    /\ req[r].pc = "save"
    /\ SaveReview(r, ReviewValues(req[r]),
                  Response(200, "Review reported successfully", ""))
    /\ UNCHANGED <<users, courses, enrollments, now, nextId, nextReviewId, serial>>

(* ------------------ PUT /api/reviews/:id (UpdateReview) ---------------- *)
\* the author check letting administrators through
NotAuthorAdminExempt(v, u) == v.student # u /\ role(u) # "admin"

\* review.student.toString() !== req.user._id.toString()
NotAuthor(v, u) == v.student # u

\* validateReviewCreation, Review.findById, author check, the assignments
UpdateReviewFind(r, u, i, rating, comment) ==
    /\ CanStart(r)
    /\ u \in users
    /\ IF ~RatingValid(rating) \/ ~CommentValid(comment)
       THEN Reply(r, Response(400, "Validation failed", ""))
       ELSE IF ReviewById(i) = {}
       THEN Reply(r, Response(404, "Review not found", ""))
       ELSE LET v == CHOOSE w \in ReviewById(i) : TRUE
                cur == [v EXCEPT !.rating = rating, !.comment = Trim(comment)]
            IN IF NotAuthor(v, u)
               THEN Reply(r, Response(403, "Access denied", ""))
               ELSE Await(r, [IdleReq EXCEPT
                                !.op = "UpdateReview", !.pc = "save", !.user = u,
                                !.review = i, !.rating = rating,
                                !.comment = Trim(comment),
                                !.mod = ModifiedReviewPaths(v, cur)])
    /\ UNCHANGED <<users, courses, enrollments, reviews, now, nextId,
                   nextReviewId, serial>>

\* review.save(); a save with no modified path sends nothing
UpdateReviewSave(r) ==
    /\ Ready
    /\ req[r].op = "UpdateReview"
    /\ req[r].pc = "save"
    /\ IF req[r].mod = {}
       THEN /\ Reply(r, Response(200, "Review updated successfully", ""))
            /\ reviews' = reviews
       ELSE SaveReview(r, ReviewValues(req[r]),
                       Response(200, "Review updated successfully", ""))
    /\ UNCHANGED <<users, courses, enrollments, now, nextId, nextReviewId, serial>>

(* ----------------- DELETE /api/reviews/:id (DeleteReview) -------------- *)
\* the check refusing administrators too
MayNotDeleteAuthorOnly(v, u) == v.student # u

\* review.student.toString() !== req.user._id.toString() && req.user.role !== 'admin'
MayNotDelete(v, u) == v.student # u /\ role(u) # "admin"

\* Review.findById and the author-or-admin check
DeleteReviewFind(r, u, i) ==
    /\ CanStart(r)
    /\ u \in users
    /\ IF ReviewById(i) = {}
       THEN Reply(r, Response(404, "Review not found", ""))
       ELSE LET v == CHOOSE w \in ReviewById(i) : TRUE
            IN IF MayNotDelete(v, u)
               THEN Reply(r, Response(403, "Access denied", ""))
               ELSE Await(r, [IdleReq EXCEPT !.op = "DeleteReview",
                                             !.pc = "delete", !.user = u,
                                             !.review = i])
    /\ UNCHANGED <<users, courses, enrollments, reviews, now, nextId,
                   nextReviewId, serial>>

\* Review.findByIdAndDelete
DeleteReviewDoc(r) ==
    /\ Ready
    /\ req[r].op = "DeleteReview"
    /\ req[r].pc = "delete"
    /\ reviews' = reviews \ ReviewById(req[r].review)
    /\ Reply(r, Response(200, "Review deleted successfully", ""))
    /\ UNCHANGED <<users, courses, enrollments, now, nextId, nextReviewId, serial>>

(* --------------- POST /api/reviews/:id/helpful (MarkHelpful) ----------- *)
\* Review.findById and review.helpfulVotes += 1
MarkHelpfulFind(r, u, i) ==
    /\ CanStart(r)
    /\ u \in users
    /\ IF ReviewById(i) = {}
       THEN Reply(r, Response(404, "Review not found", ""))
       ELSE LET v == CHOOSE w \in ReviewById(i) : TRUE
            IN /\ v.helpfulVotes <= MaxVotes
               /\ Await(r, [IdleReq EXCEPT !.op = "MarkHelpful", !.pc = "save",
                                            !.user = u, !.review = i,
                                            !.votes = v.helpfulVotes + 1,
                                            !.mod = {"helpfulVotes"}])
    /\ UNCHANGED <<users, courses, enrollments, reviews, now, nextId,
                   nextReviewId, serial>>

\* review.save()
MarkHelpfulSave(r) ==
    /\ Ready
    /\ req[r].op = "MarkHelpful"
    /\ req[r].pc = "save"
    /\ SaveReview(r, ReviewValues(req[r]),
                  Response(200, "Review marked as helpful", ""))
    /\ UNCHANGED <<users, courses, enrollments, now, nextId, nextReviewId, serial>>

(* ------------- PUT /api/admin/reviews/:id/moderate (Moderate) ---------- *)
\* request bodies of the moderation route
ActionInputs == {"approve", "reject", "remove"}

\* approval leaving the reports in place
ModeratedKeepsReports(v, action) ==
    IF action = "approve"
    THEN [v EXCEPT !.isApproved = TRUE]
    ELSE [v EXCEPT !.isApproved = FALSE]

\* the assignments of the two branches on action
Moderated(v, action) ==
    IF action = "approve"
    THEN [v EXCEPT !.isApproved = TRUE, !.reportedBy = <<>>]
    ELSE [v EXCEPT !.isApproved = FALSE]

\* `Review ${action}d successfully`
ModeratedMessage(action) ==
    IF action = "approve"
    THEN "Review approved successfully"
    ELSE "Review rejectd successfully"

\* the moderation handler looking the review up before it checks the action
ModerateFindLooksUpFirst(r, u, i, action) ==
    /\ CanStart(r)
    /\ u \in users
    /\ role(u) = "admin"
    /\ IF ReviewById(i) = {}
       THEN Reply(r, Response(404, "Review not found", ""))
       ELSE IF action \notin {"approve", "reject"}
       THEN Reply(r, Response(400, "Action must be either approve or reject", ""))
       ELSE LET v == CHOOSE w \in ReviewById(i) : TRUE
                cur == Moderated(v, action)
            IN Await(r, [IdleReq EXCEPT
                           !.op = "Moderate", !.pc = "save", !.user = u,
                           !.review = i, !.action = action,
                           !.approve = cur.isApproved,
                           !.mod = ModifiedReviewPaths(v, cur)])
    /\ UNCHANGED <<users, courses, enrollments, reviews, now, nextId,
                   nextReviewId, serial>>

\* action check, Review.findById, the assignments
ModerateFind(r, u, i, action) ==
    /\ CanStart(r)
    /\ u \in users
    /\ role(u) = "admin"
    /\ IF action \notin {"approve", "reject"}
       THEN Reply(r, Response(400, "Action must be either approve or reject", ""))
       ELSE IF ReviewById(i) = {}
       THEN Reply(r, Response(404, "Review not found", ""))
       ELSE LET v == CHOOSE w \in ReviewById(i) : TRUE
                cur == Moderated(v, action)
            IN Await(r, [IdleReq EXCEPT
                           !.op = "Moderate", !.pc = "save", !.user = u,
                           !.review = i, !.action = action,
                           !.approve = cur.isApproved,
                           !.mod = ModifiedReviewPaths(v, cur)])
    /\ UNCHANGED <<users, courses, enrollments, reviews, now, nextId,
                   nextReviewId, serial>>

\* review.save(); a save with no modified path sends nothing
ModerateSave(r) ==
    /\ Ready
    /\ req[r].op = "Moderate"
    /\ req[r].pc = "save"
    /\ IF req[r].mod = {}
       THEN /\ Reply(r, Response(200, ModeratedMessage(req[r].action), ""))
            /\ reviews' = reviews
       ELSE SaveReview(r, ReviewValues(req[r]),
                       Response(200, ModeratedMessage(req[r].action), ""))
    /\ UNCHANGED <<users, courses, enrollments, now, nextId, nextReviewId, serial>>

(* ------------------------- review statistics --------------------------- *)
RECURSIVE SumRatings(_)
SumRatings(S) ==
    IF S = {}
    THEN 0
    ELSE LET v == CHOOSE w \in S : TRUE
         IN v.rating + SumRatings(S \ {v})

\* Math.floor(averageRating * 10) in place of Math.round
RoundedTenthsTruncated(S) == (10 * SumRatings(S)) \div Cardinality(S)

\* Math.round(averageRating * 10), the average of a non-empty set of reviews
\* in tenths
RoundedTenths(S) ==
    (20 * SumRatings(S) + Cardinality(S)) \div (2 * Cardinality(S))

\* the $match stage counting every review of the course
AllReviewsOf(c) == {v \in reviews : v.course = c}

\* { $match: { course, isApproved: true } }
ApprovedReviews(c) == {v \in reviews : v.course = c /\ v.isApproved}

\* courseSchema.methods.calculateAverageRating
calculateAverageRating(c) ==
    LET S == ApprovedReviews(c)
    IN IF S # {}
       THEN [rating |-> RoundedTenths(S), reviewCount |-> Cardinality(S)]
       ELSE [rating |-> 0, reviewCount |-> 0]

\* Review.getCourseReviewStats(courseId)
getCourseReviewStats(c) ==
    LET S == {v \in reviews : v.course = c /\ v.isApproved}
    IN IF S # {}
       THEN [averageRating |-> RoundedTenths(S), totalReviews |-> Cardinality(S)]
       ELSE [averageRating |-> 0, totalReviews |-> 0]

(* ----------- GET /api/reviews/course/:courseId (ListForCourse) ---------- *)
\* req.query.rating: 0 stands for an absent filter
RatingFilters == {0, 5}

\* the query { course, isApproved: true } with the optional rating filter
ListQuery(c, f) == {v \in ApprovedReviews(c) : f = 0 \/ v.rating = f}

\* req.query.sort: "" stands for an absent key, "relevance" for a key the
\* switch does not know
SortKeys ==
    {"", "newest", "oldest", "highest-rating", "lowest-rating", "most-helpful",
     "relevance"}

\* { createdAt: -1 }
NewestFirst == <<[path |-> "createdAt", dir |-> -1]>>

\* the switch with { helpfulVotes: -1 } alone for most-helpful
SortOptionVotesOnly(k) ==
    CASE k = "newest" -> NewestFirst
      [] k = "oldest" -> <<[path |-> "createdAt", dir |-> 1]>>
      [] k = "highest-rating" ->
           <<[path |-> "rating", dir |-> -1], [path |-> "createdAt", dir |-> -1]>>
      [] k = "lowest-rating" ->
           <<[path |-> "rating", dir |-> 1], [path |-> "createdAt", dir |-> -1]>>
      [] k = "most-helpful" -> <<[path |-> "helpfulVotes", dir |-> -1]>>
      [] OTHER -> NewestFirst

\* let sortOption = { createdAt: -1 }; switch (req.query.sort)
SortOption(k) ==
    CASE k = "newest" -> NewestFirst
      [] k = "oldest" -> <<[path |-> "createdAt", dir |-> 1]>>
      [] k = "highest-rating" ->
           <<[path |-> "rating", dir |-> -1], [path |-> "createdAt", dir |-> -1]>>
      [] k = "lowest-rating" ->
           <<[path |-> "rating", dir |-> 1], [path |-> "createdAt", dir |-> -1]>>
      [] k = "most-helpful" ->
           <<[path |-> "helpfulVotes", dir |-> -1],
             [path |-> "createdAt", dir |-> -1]>>
      [] OTHER -> NewestFirst

\* the value of a sort path in a review
SortField(v, path) ==
    CASE path = "createdAt" -> v.createdAt
      [] path = "rating" -> v.rating
      [] path = "helpfulVotes" -> v.helpfulVotes

\* .sort(sortOption) may place v before w: they agree on every path, or on
\* the first path where they differ v comes first in that path's direction
RECURSIVE MayPrecede(_, _, _)
MayPrecede(v, w, opt) ==
    IF opt = <<>>
    THEN TRUE
    ELSE LET x == SortField(v, Head(opt).path)
             y == SortField(w, Head(opt).path)
         IN IF x = y
            THEN MayPrecede(v, w, Tail(opt))
            ELSE IF Head(opt).dir = 1 THEN x < y ELSE x > y

\* the orders .sort(sortOption) can return the documents of S in, as
\* sequences of ids: documents equal on every path come in either order
SortedOrders(S, opt) ==
    LET ids == {v.id : v \in S}
        n == Cardinality(ids)
        doc(i) == CHOOSE v \in S : v.id = i
    IN {o \in [1..n -> ids] :
          /\ \A i, j \in 1..n : i # j => o[i] # o[j]
          /\ \A i, j \in 1..n : i < j => MayPrecede(doc(o[i]), doc(o[j]), opt)}

\* Review.find(query).sort(sortOption): the first page, which holds every
\* match
ListForCourseFind(r, c, f, k) ==
    /\ CanStart(r)
    /\ \E o \in SortedOrders(ListQuery(c, f), SortOption(k)) :
         Await(r, [IdleReq EXCEPT
                     !.op = "ListForCourse", !.pc = "count", !.course = c,
                     !.rating = f, !.sort = k,
                     !.data = [NoData EXCEPT
                                 !.reviews = {v.id : v \in ListQuery(c, f)},
                                 !.order = o]])
    /\ UNCHANGED <<users, courses, enrollments, reviews, now, nextId,
                   nextReviewId, serial>>

\* Review.countDocuments(query)
ListForCourseCount(r) ==
    /\ Ready
    /\ req[r].op = "ListForCourse"
    /\ req[r].pc = "count"
    /\ Await(r, [req[r] EXCEPT
                   !.pc = "stats",
                   !.data.total = Cardinality(ListQuery(req[r].course, req[r].rating))])
    /\ UNCHANGED <<users, courses, enrollments, reviews, now, nextId,
                   nextReviewId, serial>>

\* Review.getCourseReviewStats and the response
ListForCourseStats(r) ==
    /\ Ready
    /\ req[r].op = "ListForCourse"
    /\ req[r].pc = "stats"
    /\ LET stats == getCourseReviewStats(req[r].course)
       IN Reply(r, DataResponse([req[r].data EXCEPT
                                   !.rating = stats.averageRating,
                                   !.reviewCount = stats.totalReviews]))
    /\ UNCHANGED <<users, courses, enrollments, reviews, now, nextId,
                   nextReviewId, serial>>

(* ------------------ GET /api/courses/:id (course detail) --------------- *)
\* Course.findById and the course check
GetCourseFind(r, c) ==
    /\ CanStart(r)
    /\ IF CourseUnavailable(c)
       THEN Reply(r, Response(404, "Course not found", ""))
       ELSE Await(r, [IdleReq EXCEPT !.op = "GetCourse", !.pc = "rating",
                                     !.course = c])
    /\ UNCHANGED <<users, courses, enrollments, reviews, now, nextId,
                   nextReviewId, serial>>

\* course.calculateAverageRating()
GetCourseRating(r) ==
    /\ Ready
    /\ req[r].op = "GetCourse"
    /\ req[r].pc = "rating"
    /\ LET stats == calculateAverageRating(req[r].course)
       IN Await(r, [req[r] EXCEPT !.pc = "countEnrollments",
                                  !.data.rating = stats.rating,
                                  !.data.reviewCount = stats.reviewCount])
    /\ UNCHANGED <<users, courses, enrollments, reviews, now, nextId,
                   nextReviewId, serial>>

\* Enrollment.countDocuments({course})
GetCourseCount(r) ==
    /\ Ready
    /\ req[r].op = "GetCourse"
    /\ req[r].pc = "countEnrollments"
    /\ Await(r, [req[r] EXCEPT !.pc = "findReviews"])
    /\ UNCHANGED <<users, courses, enrollments, reviews, now, nextId,
                   nextReviewId, serial>>

\* Review.find({course, isApproved: true}).sort({createdAt: -1}) and the
\* response
GetCourseReviews(r) ==
    /\ Ready
    /\ req[r].op = "GetCourse"
    /\ req[r].pc = "findReviews"
    /\ LET found == ApprovedReviews(req[r].course)
       IN \E o \in SortedOrders(found, NewestFirst) :
            Reply(r, DataResponse([req[r].data EXCEPT
                                     !.reviews = {v.id : v \in found},
                                     !.order = o,
                                     !.total = Cardinality(found)]))
    /\ UNCHANGED <<users, courses, enrollments, reviews, now, nextId,
                   nextReviewId, serial>>

(* --------------------------- specifications ---------------------------- *)
\* req.params.id: the _id of a stored enrollment or an id naming none
TargetIds == {d.id : d \in enrollments} \cup {NoId}

\* a request to the enrollment or user routes arrives: the handler runs up
\* to its first await
Start(r) ==
    \/ \E u \in Enrollers, c \in Courses \cup {NoCourse} : EnrollFindCourse(r, u, c)
    \/ \E u \in Users, i \in TargetIds, p \in ProgressInputs, m \in ModuleInputs :
         UpdateProgressFind(r, u, i, p, m)
    \/ \E u \in Users, i \in TargetIds : UnenrollFind(r, u, i)
    \/ \E t \in Users : DeleteUserFind(r, t)

\* an awaited database call of such a handler completes
Continue(r) ==
    \/ EnrollFindExisting(r)
    \/ EnrollSave(r)
    \/ EnrollCreate(r)
    \/ UpdateProgressSave(r)
    \/ UnenrollSave(r)
    \/ DeleteUserEnrollments(r)
    \/ DeleteUserDoc(r)

\* a request to the course routes arrives
StartCatalog(r) == \E c \in Courses : DeleteCourseFind(r, c)

\* an awaited database call of a course handler completes
ContinueCatalog(r) ==
    \/ DeleteCourseCount(r)
    \/ DeleteCourseSave(r)
    \/ DeleteCourseDoc(r)
    \/ DeleteCourseReviews(r)

\* the response written by the callback that just ran leaves the server
Send ==
    /\ res # NoResponse
    /\ res' = NoResponse
    /\ UNCHANGED <<users, courses, enrollments, reviews, req, now, nextId, nextReviewId,
                   serial>>

\* the enrollment and user routes served concurrently: the awaits of two
\* requests interleave
Next ==
    \/ Send
    \/ \E r \in Reqs : Start(r) \/ Continue(r)

Spec == Init /\ [][Next]_vars

\* req.params.id of the review routes
ReviewTargetIds == {v.id : v \in reviews} \cup {NoId}

\* a request to the review routes arrives
StartReview(r) ==
    \/ \E u \in Users, c \in Courses, x \in RatingInputs, t \in CommentInputs :
         CreateReviewFindCourse(r, u, c, x, t)
    \/ \E u \in Users, i \in ReviewTargetIds, t \in ReasonInputs :
         ReportFind(r, u, i, t)

\* an awaited database call of a review handler completes
ContinueReview(r) ==
    \/ CreateReviewFindEnrollment(r)
    \/ CreateReviewFindExisting(r)
    \/ CreateReviewCreate(r)
    \/ ReportSave(r)

\* a moderation request or a read of a course's reviews arrives
StartModeration(r) ==
    \/ \E u \in Admins, i \in ReviewTargetIds, a \in ActionInputs :
         ModerateFind(r, u, i, a)
    \/ \E c \in Courses, f \in RatingFilters, k \in SortKeys :
         ListForCourseFind(r, c, f, k)
    \/ \E c \in Courses : GetCourseFind(r, c)

\* an awaited database call of such a handler completes
ContinueModeration(r) ==
    \/ ModerateSave(r)
    \/ ListForCourseCount(r)
    \/ ListForCourseStats(r)
    \/ GetCourseRating(r)
    \/ GetCourseCount(r)
    \/ GetCourseReviews(r)

\* every route, served one request at a time
SeqNext ==
    \/ Next
    \/ \E r \in Reqs : StartCatalog(r) \/ ContinueCatalog(r)

SeqSpec == SeqInit /\ [][SeqNext]_vars

\* the store once the student has enrolled in the course: the state the
\* first Enroll leaves, as the seed script's Enrollment.create does
SeededInit ==
    /\ users = Users
    /\ courses = [c \in Courses |-> [exists |-> TRUE, isActive |-> TRUE]]
    /\ enrollments = {NewEnrollment(1, "s1", "c1", 1)}
    /\ reviews = {}
    /\ req = [r \in Reqs |-> IdleReq]
    /\ res = NoResponse
    /\ now = 2
    /\ nextId = 2
    /\ nextReviewId = 1
    /\ serial = FALSE

\* the review routes served concurrently
ReviewNext ==
    \/ Send
    \/ \E r \in Reqs : StartReview(r) \/ ContinueReview(r)

ReviewSpec == SeededInit /\ [][ReviewNext]_vars

\* an Enroll or Unenroll request arrives
StartMembership(r) ==
    \/ \E u \in Enrollers, c \in Courses : EnrollFindCourse(r, u, c)
    \/ \E u \in Enrollers, i \in TargetIds : UnenrollFind(r, u, i)

\* an awaited database call of an Enroll or Unenroll completes
ContinueMembership(r) ==
    \/ EnrollFindExisting(r)
    \/ EnrollSave(r)
    \/ EnrollCreate(r)
    \/ UnenrollSave(r)

\* enrollment, review and moderation routes, served one request at a time
ModerationNext ==
    \/ Send
    \/ \E r \in Reqs : StartMembership(r) \/ ContinueMembership(r)
    \/ \E r \in Reqs : StartReview(r) \/ ContinueReview(r)
    \/ \E r \in Reqs : StartModeration(r) \/ ContinueModeration(r)

ModerationSpec == SeqInit /\ [][ModerationNext]_vars

\* the accounts that send UpdateReview and DeleteReview requests
Requesters == Users \cup Guests

\* an UpdateReview or DeleteReview request arrives
StartAuthoring(r) ==
    \/ \E u \in Requesters, i \in ReviewTargetIds, x \in RatingInputs,
          t \in CommentInputs :
         UpdateReviewFind(r, u, i, x, t)
    \/ \E u \in Requesters, i \in ReviewTargetIds : DeleteReviewFind(r, u, i)

\* an awaited database call of an UpdateReview or DeleteReview completes
ContinueAuthoring(r) ==
    \/ UpdateReviewSave(r)
    \/ DeleteReviewDoc(r)

\* a MarkHelpful request arrives
StartVoting(r) == \E u \in Users, i \in ReviewTargetIds : MarkHelpfulFind(r, u, i)

\* the save of a MarkHelpful completes
ContinueVoting(r) == MarkHelpfulSave(r)

\* a DeleteUser request arrives
StartAccount(r) == \E t \in Users : DeleteUserFind(r, t)

\* an awaited database call of a DeleteUser completes
ContinueAccount(r) ==
    \/ DeleteUserEnrollments(r)
    \/ DeleteUserDoc(r)

\* the UpdateProgress bodies of the lifecycle runs: a missing progress, one
\* on each side of the range and the completing one
LifecycleProgressInputs == {JsUndefined, JsNum(-1), JsNum(101), JsNum(100)}

\* an UpdateProgress request without completedModuleIndex arrives
StartProgress(r) ==
    \E u \in Users, i \in TargetIds, p \in LifecycleProgressInputs :
        UpdateProgressFind(r, u, i, p, JsUndefined)

\* the save of an UpdateProgress completes
ContinueProgress(r) == UpdateProgressSave(r)

\* the request slot a server that handles one request at a time works in
SerialReqs == {"r1"}

\* the write routes of accounts, courses, enrollments and reviews, served
\* one request at a time
LifecycleNext ==
    \/ Send
    \/ \E r \in SerialReqs : StartMembership(r) \/ ContinueMembership(r)
    \/ \E r \in SerialReqs : StartProgress(r) \/ ContinueProgress(r)
    \/ \E r \in SerialReqs : StartAccount(r) \/ ContinueAccount(r)
    \/ \E r \in SerialReqs : StartCatalog(r) \/ ContinueCatalog(r)
    \/ \E r \in SerialReqs : StartReview(r) \/ ContinueReview(r)
    \/ \E r \in SerialReqs : StartAuthoring(r) \/ ContinueAuthoring(r)
    \/ \E r \in SerialReqs, u \in Admins, i \in ReviewTargetIds, a \in ActionInputs :
         ModerateFind(r, u, i, a)
    \/ \E r \in SerialReqs : ModerateSave(r)

\* the store of the serial server with the guest account registered
LifecycleInit ==
    /\ users = Users \cup Guests
    /\ courses = [c \in Courses |-> [exists |-> TRUE, isActive |-> TRUE]]
    /\ enrollments = {}
    /\ reviews = {}
    /\ req = [r \in Reqs |-> IdleReq]
    /\ res = NoResponse
    /\ now = 1
    /\ nextId = 1
    /\ nextReviewId = 1
    /\ serial = TRUE

LifecycleSpec == LifecycleInit /\ [][LifecycleNext]_vars

\* the store once the enrolled student has reviewed the course
ReviewedInit ==
    /\ users = Users
    /\ courses = [c \in Courses |-> [exists |-> TRUE, isActive |-> TRUE]]
    /\ enrollments = {NewEnrollment(1, "s1", "c1", 1)}
    /\ reviews \in {{NewReview(1, "s1", "c1", x, Trim(t), 2)} :
                       x \in {y \in RatingInputs : RatingValid(y)},
                       t \in {z \in CommentInputs : CommentValid(z)}}
    /\ req = [r \in Reqs |-> IdleReq]
    /\ res = NoResponse
    /\ now = 2
    /\ nextId = 2
    /\ nextReviewId = 2
    /\ serial = FALSE

\* MarkHelpful and UpdateReview requests served concurrently
HelpfulNext ==
    \/ Send
    \/ \E r \in Reqs : StartVoting(r) \/ ContinueVoting(r)
    \/ \E r \in Reqs, u \in Users, i \in ReviewTargetIds, x \in RatingInputs,
          t \in CommentInputs :
         UpdateReviewFind(r, u, i, x, t)
    \/ \E r \in Reqs : UpdateReviewSave(r)

HelpfulSpec == ReviewedInit /\ [][HelpfulNext]_vars

\* the ratings, vote counts and creation dates of the stored reviews
StoredRatings == {3, 4, 5}
StoredVotes == {0, 1}
StoredDates == {1, 2}

\* the author of the i-th review
StoredAuthor(i) == IF i = 1 THEN "s1" ELSE IF i = 2 THEN "s2" ELSE "a1"

\* a stored review after votes and moderation
StoredReview(i, x, a, h, t) ==
    [NewReview(i, StoredAuthor(i), "c1", x,
               Trim(CHOOSE m \in ValidComments : TRUE), t)
       EXCEPT !.isApproved = a, !.helpfulVotes = h]

\* a store of up to MaxStored reviews of the course, created in the order
\* of their ids
ReadInit ==
    /\ users = Users \cup Guests
    /\ courses = [c \in Courses |-> [exists |-> TRUE, isActive |-> TRUE]]
    /\ enrollments = {NewEnrollment(1, "s1", "c1", 1)}
    /\ \E n \in 0..MaxStored :
         \E x \in [1..n -> StoredRatings], a \in [1..n -> BOOLEAN],
            h \in [1..n -> StoredVotes], t \in [1..n -> StoredDates] :
           /\ \A i, j \in 1..n : i <= j => t[i] <= t[j]
           /\ reviews = {StoredReview(i, x[i], a[i], h[i], t[i]) : i \in 1..n}
    /\ req = [r \in Reqs |-> IdleReq]
    /\ res = NoResponse
    /\ now = 3
    /\ nextId = 2
    /\ nextReviewId = MaxStored + 1
    /\ serial = TRUE

\* the listing of a course's reviews and the course detail, served one
\* request at a time
ReadNext ==
    \/ Send
    \/ \E r \in SerialReqs : \E c \in Courses, k \in SortKeys :
         ListForCourseFind(r, c, 0, k)
    \/ \E r \in SerialReqs : \E c \in Courses : GetCourseFind(r, c)
    \/ \E r \in SerialReqs : ListForCourseCount(r)
    \/ \E r \in SerialReqs : ListForCourseStats(r)
    \/ \E r \in SerialReqs : GetCourseRating(r)
    \/ \E r \in SerialReqs : GetCourseCount(r)
    \/ \E r \in SerialReqs : GetCourseReviews(r)

ReadSpec == ReadInit /\ [][ReadNext]_vars

(* ------------------------------ properties ----------------------------- *)
AllIds == DocIds \cup {NoId}
Indices(d) == {d.completedModules[k].moduleIndex : k \in 1..Len(d.completedModules)}
CountIndex(d, x) ==
    Cardinality({k \in 1..Len(d.completedModules) : d.completedModules[k].moduleIndex = x})

\* C1: when requests are served one at a time (SeqSpec), every enrollment
\* has a completionDate exactly when its progress is 100.
C1_CompletionIffProgress100 ==
    \A d \in enrollments : (d.completionDate # NoDate) <=> (d.progress = JsNum(100))

\* an UpdateProgress(100) has just been saved and set completionDate
C1_Witness ==
    /\ res.msg = "Progress updated successfully"
    /\ \E d \in enrollments :
         /\ d.progress = JsNum(100)
         /\ d.completionDate # NoDate
         /\ d.completionDate = d.lastAccessedAt

\* C2: at most one enrollment document exists per (student, course) pair,
\* also when two Enroll requests for the pair interleave (Spec).
C2_OneEnrollmentPerPair ==
    \A d \in enrollments : \A e \in enrollments :
        (d.student = e.student /\ d.course = e.course) => d.id = e.id

\* two Enroll requests raced: the second create hit the unique index
C2_Witness ==
    /\ res.err = "E11000"
    /\ enrollments # {}

\* C3: the Enroll request whose create is rejected by the unique index
\* answers with the Conflict outcome (400/409), not with 500.
C3_RaceLoserGetsConflict ==
    res.err = "E11000" => res.status \in {400, 409}

\* C4: Enroll on a pair whose enrollment is active answers 400 'Already
\* enrolled' and changes no enrollment and starts no write.
C4_ActiveEnrollRejected ==
    [][\A r \in Reqs :
         (EnrollFindExisting(r)
            /\ \E d \in ByPair(req[r].user, req[r].course) : d.isActive)
         => /\ res' = Response(400, "Already enrolled in this course", "")
            /\ enrollments' = enrollments
            /\ req'[r] = IdleReq]_vars

\* an Enroll on an active enrollment has just been answered
C4_Witness ==
    /\ res.msg = "Already enrolled in this course"
    /\ \E d \in enrollments : d.isActive

\* C5: the save of a reactivating Enroll keeps the document's identity,
\* sets isActive and the new startDate, answers 200 and leaves progress,
\* completedModules and completionDate as they were.
C5_ReactivationKeepsHistory ==
    [][\A r \in Reqs :
         (EnrollSave(r) /\ ById(req[r].doc.id) # {})
         => /\ res'.status = 200
            /\ {e.id : e \in enrollments'} = {d.id : d \in enrollments}
            /\ \A d \in ById(req[r].doc.id) : \E e \in enrollments' :
                 /\ e.id = d.id
                 /\ e.student = d.student /\ e.course = d.course
                 /\ e.isActive
                 /\ e.startDate = req[r].doc.startDate
                 /\ e.progress = d.progress
                 /\ e.completedModules = d.completedModules
                 /\ e.completionDate = d.completionDate]_vars

\* C6 (as stated): no step removes the enrollment of a pair.
C6_NeverRemoved ==
    [][\A d \in enrollments : \E e \in enrollments' :
         e.student = d.student /\ e.course = d.course]_vars

\* C6 (amended): an enrollment document is removed only by the deleteMany of
\* a DeleteUser on its student; every other step keeps it, with its identity.
C6_RemovedOnlyByDeleteUser ==
    [][\A d \in enrollments :
         \/ \E e \in enrollments' :
              e.id = d.id /\ e.student = d.student /\ e.course = d.course
         \/ \E r \in Reqs :
              DeleteUserEnrollments(r) /\ req[r].target = d.student]_vars

\* a created enrollment was just removed by DeleteUser
C6_Witness ==
    /\ nextId > 1
    /\ enrollments = {}
    /\ \E r \in Reqs : req[r].op = "DeleteUser" /\ req[r].pc = "deleteUser"

\* C7: completionDate is set exactly when progress is 100 in every state the
\* concurrently served requests reach (Spec).
C7_CompletionIffProgress100Concurrent ==
    \A d \in enrollments :
        /\ d.progress = JsNum(100) => d.completionDate # NoDate
        /\ d.completionDate # NoDate => d.progress = JsNum(100)

\* the numeric progress values outside [0, 100] among the request bodies
OutOfRange == {p \in ProgressInputs : p.t = "number" /\ (p.n < 0 \/ p.n > 100)}

\* C8: UpdateProgress with a numeric progress below 0 or above 100 answers
\* 400, changes no enrollment and leaves no write pending, whatever
\* completedModuleIndex it carries.
C8_OutOfRangeRejected ==
    [][\A r \in Reqs, u \in Users, i \in AllIds, p \in OutOfRange,
         m \in ModuleInputs :
         (CanStart(r) /\ UpdateProgressFind(r, u, i, p, m))
         => /\ res' = Response(400, "Progress must be between 0 and 100", "")
            /\ enrollments' = enrollments
            /\ req' = req]_vars

\* an out-of-range UpdateProgress was just answered while an enrollment exists
C8_Witness ==
    /\ res.msg = "Progress must be between 0 and 100"
    /\ enrollments # {}

\* C9: every stored progress is a number between 0 and 100.
C9_ProgressInRange ==
    \A d \in enrollments :
        d.progress.t = "number" /\ d.progress.n >= 0 /\ d.progress.n <= 100

\* C10: served one at a time (SeqSpec), an UpdateProgress carrying an index
\* already in completedModules is accepted with nothing to push, its save
\* answers 200 and leaves completedModules as it was, and no index ever
\* appears twice.
C10_ModuleIndexIdempotent ==
    [][\A r \in Reqs :
         /\ \A u \in Users, i \in AllIds, p \in ProgressInputs, m \in ModuleInputs :
              (UpdateProgressFind(r, u, i, p, m)
                 /\ ~ProgressRejected(p) /\ ~CastFails(p)
                 /\ \E d \in ById(i) : d.student = u /\ m.t = "number"
                                       /\ m.n \in Indices(d))
              => req'[r].pc = "save" /\ req'[r].push = <<>>
         /\ (UpdateProgressSave(r) /\ ById(req[r].doc.id) # {})
              => /\ res'.status = 200
                 /\ \A d \in ById(req[r].doc.id) : \E e \in enrollments' :
                      /\ e.id = d.id
                      /\ e.completedModules = d.completedModules \o req[r].push
                      /\ (req[r].cmi.t = "number" /\ req[r].cmi.n \in Indices(d))
                           => e.completedModules = d.completedModules
                      /\ \A x \in ModuleIndices : CountIndex(e, x) <= 1]_vars

\* a request resubmitting a completed index is about to save
C10_Witness ==
    \E r \in Reqs :
        /\ req[r].op = "UpdateProgress" /\ req[r].pc = "save"
        /\ req[r].cmi.t = "number" /\ req[r].push = <<>>
        /\ \E d \in ById(req[r].doc.id) : req[r].cmi.n \in Indices(d)

\* C11: within one enrollment no moduleIndex appears twice in
\* completedModules, also when two UpdateProgress requests carrying the same
\* index overlap (Spec).
C11_ModuleIndicesDistinct ==
    \A d \in enrollments : \A x \in ModuleIndices : CountIndex(d, x) <= 1

\* C12: the save of an Unenroll answers 200, keeps the document, sets
\* isActive to false and leaves progress, completedModules, completionDate
\* and startDate as they were.
C12_UnenrollKeepsHistory ==
    [][\A r \in Reqs :
         (UnenrollSave(r) /\ ById(req[r].doc.id) # {})
         => /\ res'.status = 200
            /\ \A d \in ById(req[r].doc.id) : \E e \in enrollments' :
                 /\ e.id = d.id
                 /\ ~e.isActive
                 /\ e.progress = d.progress
                 /\ e.completedModules = d.completedModules
                 /\ e.completionDate = d.completionDate
                 /\ e.startDate = d.startDate]_vars

\* C13: served one at a time (SeqSpec), Enroll on a course that is absent
\* or inactive answers 404, creates no enrollment, reactivates none and
\* starts no write.
C13_UnavailableCourseNotFound ==
    [][\A r \in Reqs, u \in Enrollers, c \in Courses :
         (EnrollFindCourse(r, u, c)
            /\ (~courses[c].exists \/ ~courses[c].isActive))
         => /\ res' = Response(404, "Course not found or inactive", "")
            /\ enrollments' = enrollments
            /\ req'[r] = IdleReq]_vars

\* an Enroll on a deactivated course was just answered while the student's
\* inactive enrollment for it exists
C13_Witness ==
    /\ res.msg = "Course not found or inactive"
    /\ \E d \in enrollments :
         ~d.isActive /\ courses[d.course].exists /\ ~courses[d.course].isActive

\* the request bodies that pass the range check of UpdateProgress
InRange == {p \in ProgressInputs : ~ProgressRejected(p)}

\* C14: UpdateProgress (with a body that passes the range check) and
\* Unenroll answer 404 for an id naming no enrollment whoever asks, 403 for
\* an existing enrollment asked for by anyone but its student, administrators
\* included, and in both cases change no enrollment and start no write; a
\* save of either operation is always one started by the enrollment's student.
C14_OwnerOnly ==
    [][\A r \in Reqs :
         /\ \A u \in Users, i \in AllIds :
              /\ \A p \in InRange, m \in ModuleInputs :
                   (CanStart(r) /\ UpdateProgressFind(r, u, i, p, m)
                      /\ \A d \in ById(i) : d.student # u)
                   => /\ res' = IF ById(i) = {}
                                THEN Response(404, "Enrollment not found", "")
                                ELSE Response(403, "Access denied", "")
                      /\ enrollments' = enrollments
                      /\ req' = req
              /\ (CanStart(r) /\ UnenrollFind(r, u, i)
                      /\ \A d \in ById(i) : d.student # u)
                   => /\ res' = IF ById(i) = {}
                                THEN Response(404, "Enrollment not found", "")
                                ELSE Response(403, "Access denied", "")
                      /\ enrollments' = enrollments
                      /\ req' = req
         /\ (UpdateProgressSave(r) \/ UnenrollSave(r))
              => \A d \in ById(req[r].doc.id) : d.student = req[r].user]_vars

\* a request on an existing enrollment by someone else was just refused
C14_Witness ==
    /\ res = Response(403, "Access denied", "")
    /\ enrollments # {}

\* C15: served one at a time (ModerationSpec), a CreateReview whose author
\* has no enrollment for the course, or only an inactive one, answers 400
\* and creates no review; a review is created only while its author's
\* enrollment for the course is active.
C15_ReviewNeedsActiveEnrollment ==
    [][\A r \in Reqs :
         /\ (CreateReviewFindEnrollment(r)
               /\ \A d \in ByPair(req[r].user, req[r].course) : ~d.isActive)
            => /\ res' = Response(400,
                     "You must be enrolled in this course to leave a review", "")
               /\ reviews' = reviews
               /\ req'[r] = IdleReq
         /\ CreateReviewCreate(r)
            => \E d \in ByPair(req[r].user, req[r].course) : d.isActive]_vars

\* an unenrolled student was just refused a review
C15_Witness ==
    /\ res.msg = "You must be enrolled in this course to leave a review"
    /\ \E d \in enrollments : ~d.isActive
    /\ reviews = {}

\* C16: at most one review exists per (student, course) pair, also when two
\* CreateReview requests for the pair overlap (ReviewSpec).
C16_OneReviewPerPair ==
    \A v \in reviews : \A w \in reviews :
        (v.student = w.student /\ v.course = w.course) => v.id = w.id

\* the number of entries of user u in the reports of review v
CountReports(v, u) ==
    Cardinality({k \in 1..Len(v.reportedBy) : v.reportedBy[k].user = u})

\* the report bodies whose reason is not blank
Reasons == {t \in ReasonInputs : Trim(t) # <<>>}

\* C17: served one at a time (ModerationSpec), a ReportReview by a user who
\* already has an entry in reportedBy answers 400 and changes no review; one
\* by a user with no entry goes on to save, and its save appends exactly one
\* entry, for that user, to reportedBy.
C17_ReportOncePerUser ==
    [][\A r \in Reqs :
         /\ \A u \in Users, i \in ReviewIds, t \in Reasons :
              (CanStart(r) /\ ReportFind(r, u, i, t) /\ ReviewById(i) # {})
              => \A v \in ReviewById(i) :
                   IF CountReports(v, u) > 0
                   THEN /\ res' = Response(400,
                              "You have already reported this review", "")
                        /\ reviews' = reviews
                        /\ req' = req
                   ELSE /\ req'[r].op = "Report"
                        /\ req'[r].pc = "save"
                        /\ reviews' = reviews
         /\ (ReportSave(r) /\ ReviewById(req[r].review) # {})
              => /\ res'.status = 200
                 /\ \A v \in ReviewById(req[r].review) : \E e \in reviews' :
                      /\ e.id = v.id
                      /\ Len(e.reportedBy) = Len(v.reportedBy) + 1
                      /\ SubSeq(e.reportedBy, 1, Len(v.reportedBy)) = v.reportedBy
                      /\ e.reportedBy[Len(e.reportedBy)].user = req[r].user
                      /\ CountReports(e, req[r].user) = 1]_vars

\* a second report by the same user was just refused
C17_Witness ==
    /\ res.msg = "You have already reported this review"
    /\ \E v \in reviews : v.reportedBy # <<>>

\* C18: reportedBy holds at most one entry per user, also when two
\* ReportReview requests by one user on one review overlap (ReviewSpec).
C18_OneReportPerUser ==
    \A v \in reviews : \A u \in Users : CountReports(v, u) <= 1

\* C19: served one at a time (ModerationSpec), the save of Moderate(approve)
\* leaves the review approved with reportedBy empty, the save of
\* Moderate(reject) leaves it unapproved with reportedBy as it was, and
\* neither changes rating, comment or helpfulVotes.
C19_ModerateEffect ==
    [][\A r \in Reqs :
         (ModerateSave(r) /\ ReviewById(req[r].review) # {})
         => /\ res'.status = 200
            /\ \A v \in ReviewById(req[r].review) : \E e \in reviews' :
                 /\ e.id = v.id
                 /\ e.rating = v.rating
                 /\ e.comment = v.comment
                 /\ e.helpfulVotes = v.helpfulVotes
                 /\ IF req[r].action = "approve"
                    THEN e.isApproved /\ e.reportedBy = <<>>
                    ELSE ~e.isApproved /\ e.reportedBy = v.reportedBy]_vars

\* a reported review was just rejected and still carries its reports
C19_Witness ==
    /\ res.msg = "Review rejectd successfully"
    /\ \E v \in reviews : ~v.isApproved /\ v.reportedBy # <<>>

\* the approved reviews of course c, read off the store
Visible(c) == {v \in reviews : v.course = c /\ v.isApproved = TRUE}

\* C20: served one at a time (ModerationSpec), the listing of a course's
\* reviews and the review list of the course detail hold approved reviews
\* of that course only, and the statistics and the course's rating and
\* reviewCount count the approved reviews only: {0, 0} when none is approved.
C20_OnlyApprovedVisible ==
    [][\A r \in Reqs :
         /\ \A c \in Courses, f \in RatingFilters, k \in SortKeys :
              (CanStart(r) /\ ListForCourseFind(r, c, f, k))
              => req'[r].data.reviews \subseteq {v.id : v \in Visible(c)}
         /\ ListForCourseCount(r)
              => req'[r].data.total <= Cardinality(Visible(req[r].course))
         /\ ListForCourseStats(r)
              => /\ res'.data.reviewCount = Cardinality(Visible(req[r].course))
                 /\ Visible(req[r].course) = {} => res'.data.rating = 0
                 /\ Visible(req[r].course) # {} => res'.data.rating >= 10
         /\ GetCourseRating(r)
              => /\ req'[r].data.reviewCount = Cardinality(Visible(req[r].course))
                 /\ Visible(req[r].course) = {} => req'[r].data.rating = 0
                 /\ Visible(req[r].course) # {} => req'[r].data.rating >= 10
         /\ GetCourseReviews(r)
              => res'.data.reviews = {v.id : v \in Visible(req[r].course)}]_vars

\* a listing was just answered empty while the course's only review is
\* rejected
C20_Witness ==
    /\ res = DataResponse(NoData)
    /\ reviews # {}
    /\ \A v \in reviews : ~v.isApproved

\* the review of the store with id i
Stored(i) == CHOOSE v \in reviews : v.id = i

\* t is the average rating of the non-empty set S in tenths, rounded half up
IsRoundedAverage(t, S) ==
    LET n == Cardinality(S)
    IN /\ 2 * n * t <= 20 * SumRatings(S) + n
       /\ 20 * SumRatings(S) + n < 2 * n * t + 2 * n

\* d carries the statistics of the approved reviews of course c
IsStatsOf(d, c) ==
    LET S == Visible(c)
    IN /\ d.reviewCount = Cardinality(S)
       /\ S = {} => d.rating = 0
       /\ S # {} => IsRoundedAverage(d.rating, S)
       /\ (Cardinality(S) = 3 /\ {v.rating : v \in S} = {3, 4, 5})
            => d.rating = 40

\* C21: on every store of up to MaxStored reviews (ReadSpec), the
\* statistics the listing answers with and the rating the course detail
\* computes are the count of the course's approved reviews and the average
\* of their ratings rounded to one decimal (held in tenths): 4.0 and 3 for
\* approved ratings 5, 3, 4, and 0 and 0 when no review is approved.
C21_StatsOverApproved ==
    [][\A r \in Reqs :
         /\ ListForCourseStats(r) => IsStatsOf(res'.data, req[r].course)
         /\ GetCourseRating(r) => IsStatsOf(req'[r].data, req[r].course)]_vars

\* the listing just answered 4.0 and 3 over three approved reviews rated
\* 5, 3 and 4
C21_Witness ==
    /\ res.status = 200
    /\ res.data.rating = 40
    /\ res.data.reviewCount = 3
    /\ res.data.total = 3
    /\ \A v \in reviews : v.isApproved
    /\ {v.rating : v \in reviews} = {3, 4, 5}

\* the sequence o lists the ids of S, each once
ListsEach(o, S) ==
    /\ Len(o) = Cardinality(S)
    /\ {o[i] : i \in 1..Len(o)} = {v.id : v \in S}

\* C22: on every store of up to MaxStored reviews (ReadSpec), the listing
\* returns each approved review of the course once; with sort=most-helpful a
\* review with more helpfulVotes comes before one with fewer and, of two with
\* equal helpfulVotes, the one created later comes first; with an absent or
\* unrecognised sort key a review created later comes first; the response
\* carries that order.
C22_MostHelpfulOrder ==
    [][\A r \in Reqs :
         /\ \A c \in Courses, k \in {"most-helpful", "", "relevance"} :
              (CanStart(r) /\ ListForCourseFind(r, c, 0, k))
              => LET o == req'[r].data.order
                 IN /\ ListsEach(o, Visible(c))
                    /\ \A i, j \in 1..Len(o) :
                         i < j
                         => LET v == Stored(o[i])
                                w == Stored(o[j])
                            IN IF k = "most-helpful"
                               THEN \/ v.helpfulVotes > w.helpfulVotes
                                    \/ /\ v.helpfulVotes = w.helpfulVotes
                                       /\ v.createdAt >= w.createdAt
                               ELSE v.createdAt >= w.createdAt
         /\ ListForCourseStats(r) => res'.data.order = req[r].data.order]_vars

\* a most-helpful listing of three approved reviews is in flight: the review
\* created first has the most votes and leads, and the other two, equal in
\* votes, follow with the later one first
C22_Witness ==
    \E r \in Reqs :
        /\ req[r].op = "ListForCourse"
        /\ req[r].sort = "most-helpful"
        /\ req[r].data.order = <<1, 3, 2>>
        /\ Stored(1).helpfulVotes > Stored(3).helpfulVotes
        /\ Stored(3).helpfulVotes = Stored(2).helpfulVotes
        /\ Stored(3).createdAt > Stored(2).createdAt

\* C29: a step that finds an enrollment at progress 100 with completionDate
\* set and leaves it at progress 100 leaves its completionDate as it was,
\* also when requests overlap (Spec).
C29_CompletionDateKept ==
    [][\A d \in enrollments : \A e \in enrollments' :
         (e.id = d.id /\ d.progress = JsNum(100) /\ d.completionDate # NoDate
            /\ e.progress = JsNum(100))
         => e.completionDate = d.completionDate]_vars

\* the request bodies UpdateProgress stores
Storable == {p \in InRange : ~CastFails(p) /\ ProgressValid(CastNumber(p))}

\* C30: isActive changes only in the save of an Enroll (to true) and in the
\* save of an Unenroll (to false); UpdateProgress by the owner is accepted on
\* an inactive enrollment and its save leaves isActive as it was; Unenroll on
\* an inactive enrollment is accepted and its save leaves an enrollment that
\* is inactive when the save arrives inactive (Spec).
C30_IsActiveOnlyByEnrollUnenroll ==
    [][/\ \A d \in enrollments : \A e \in enrollments' :
            (e.id = d.id /\ e.isActive # d.isActive)
            => \E r \in Reqs : \/ EnrollSave(r) /\ e.isActive
                               \/ UnenrollSave(r) /\ ~e.isActive
       /\ \A r \in Reqs :
            /\ \A d \in enrollments :
                 ~d.isActive /\ CanStart(r)
                 => /\ \A p \in Storable, m \in ModuleInputs :
                         UpdateProgressFind(r, d.student, d.id, p, m)
                         => req'[r].op = "UpdateProgress" /\ req'[r].pc = "save"
                    /\ UnenrollFind(r, d.student, d.id)
                         => req'[r].op = "Unenroll" /\ req'[r].pc = "save"
            /\ (UpdateProgressSave(r) /\ ById(req[r].doc.id) # {})
                 => /\ res'.status = 200
                    /\ \A d \in ById(req[r].doc.id) : \E e \in enrollments' :
                         e.id = d.id /\ e.isActive = d.isActive
            /\ (UnenrollSave(r) /\ ById(req[r].doc.id) # {})
                 => /\ res'.status = 200
                    /\ \A d \in ById(req[r].doc.id) : \E e \in enrollments' :
                         e.id = d.id /\ (~d.isActive => ~e.isActive)]_vars

\* an UpdateProgress on an unenrolled enrollment was just saved and completed
\* it while it stays inactive
C30_Witness ==
    /\ res.msg = "Progress updated successfully"
    /\ \E d \in enrollments :
         ~d.isActive /\ d.progress = JsNum(100) /\ d.completionDate # NoDate
                     /\ d.completedModules # <<>>

AllReviewIds == ReviewIds \cup {NoId}

\* C23: served one at a time (LifecycleSpec), an UpdateReview with a valid
\* body answers 404 for an id naming no review, 403 for a review of another
\* author whoever asks, administrators included, and changes nothing in both
\* cases; its save is always the author's, answers 200, stores the new
\* rating and comment and leaves isApproved, reportedBy and helpfulVotes as
\* they were.
C23_UpdateReviewAuthorOnly ==
    [][\A r \in SerialReqs :
         /\ \A u \in Requesters, i \in AllReviewIds :
              (CanStart(r) /\ \A v \in ReviewById(i) : v.student # u)
              => \A x \in ValidRatings, t \in ValidComments :
                   UpdateReviewFind(r, u, i, x, t)
                   => /\ res' = IF ReviewById(i) = {}
                                THEN Response(404, "Review not found", "")
                                ELSE Response(403, "Access denied", "")
                      /\ reviews' = reviews
                      /\ req' = req
         /\ (UpdateReviewSave(r) /\ ReviewById(req[r].review) # {})
              => /\ res'.status = 200
                 /\ \A v \in ReviewById(req[r].review) : \E e \in reviews' :
                      /\ e.id = v.id
                      /\ v.student = req[r].user
                      /\ e.rating = req[r].rating
                      /\ e.comment = req[r].comment
                      /\ e.isApproved = v.isApproved
                      /\ e.reportedBy = v.reportedBy
                      /\ e.helpfulVotes = v.helpfulVotes]_vars

\* the author is about to save a new rating on the rejected, reported review
C23_Witness ==
    \E r \in Reqs :
        /\ req[r].op = "UpdateReview" /\ req[r].pc = "save"
        /\ \E v \in ReviewById(req[r].review) :
             ~v.isApproved /\ v.reportedBy # <<>> /\ v.rating # req[r].rating

\* C24: served one at a time (LifecycleSpec), a DeleteReview by the author
\* or by an administrator goes on to remove the review, and that review
\* only; by anyone else it answers 403 and changes nothing; once the review
\* is gone the duplicate check of the author's next CreateReview passes.
C24_DeleteReviewAuthorOrAdmin ==
    [][\A r \in Reqs :
         /\ \A u \in Requesters, i \in ReviewIds :
              (CanStart(r) /\ ReviewById(i) # {} /\ DeleteReviewFind(r, u, i))
              => \A v \in ReviewById(i) :
                   IF v.student = u \/ u \in Admins
                   THEN /\ req'[r].op = "DeleteReview" /\ req'[r].pc = "delete"
                        /\ reviews' = reviews
                   ELSE /\ res' = Response(403, "Access denied", "")
                        /\ reviews' = reviews
                        /\ req' = req
         /\ DeleteReviewDoc(r)
              => /\ res'.status = 200
                 /\ reviews' = {v \in reviews : v.id # req[r].review}
         /\ (CreateReviewFindExisting(r)
               /\ ReviewsByPair(req[r].user, req[r].course) = {})
              => req'[r].pc = "create"]_vars

\* the author's second review was just created after the first was deleted
C24_Witness ==
    /\ res.msg = "Review created successfully"
    /\ \E v \in reviews : v.id > 1
    /\ ~\E v \in reviews : v.id = 1

\* the outcomes InvalidInput, NotFound, Forbidden and Conflict
FailureStatus == {400, 403, 404, 409}

\* the UpdateProgress bodies the range check refuses
RefusedProgress == {p \in LifecycleProgressInputs : ProgressRejected(p)}
\* the report reasons that are blank
BlankReasons == {t \in ReasonInputs : Trim(t) = <<>>}
\* the moderation actions other than approve and reject
BadActions == ActionInputs \ {"approve", "reject"}

\* C25: served one at a time (LifecycleSpec), a step that answers 400, 403,
\* 404 or 409 changes no enrollment, review, course or account; UpdateProgress
\* with a progress outside the range, ReportReview with a blank reason and
\* Moderate with another action answer 400 whether or not the enrollment or
\* review they name exists.
C25_FailuresChangeNothing ==
    [][/\ res'.status \in FailureStatus
            => /\ enrollments' = enrollments
               /\ reviews' = reviews
               /\ courses' = courses
               /\ users' = users
       /\ \A r \in SerialReqs :
            CanStart(r)
            => /\ \A u \in Users, i \in AllIds, p \in RefusedProgress :
                    UpdateProgressFind(r, u, i, p, JsUndefined)
                    => res'.status = 400 /\ req' = req
               /\ \A u \in Users, i \in AllReviewIds, t \in BlankReasons :
                    ReportFind(r, u, i, t)
                    => res'.status = 400 /\ req' = req
               /\ \A u \in Admins, i \in AllReviewIds, a \in BadActions :
                    ModerateFind(r, u, i, a)
                    => res'.status = 400 /\ req' = req]_vars

\* a moderation with a bad action was just refused while no review exists
C25_Witness ==
    /\ res = Response(400, "Action must be either approve or reject", "")
    /\ reviews = {}

C27_EveryVoteCounts ==
    [][/\ \A v \in reviews, e \in reviews' :
            e.id = v.id => e.helpfulVotes >= v.helpfulVotes
       /\ \A r \in Reqs :
            (MarkHelpfulSave(r) /\ ReviewById(req[r].review) # {})
            => \A v \in ReviewById(req[r].review) : \E e \in reviews' :
                 e.id = v.id /\ e.helpfulVotes = v.helpfulVotes + 1]_vars

\* C28: every review has an enrollment document for its (student, course)
\* pair and an author account (LifecycleSpec).
C28_ReviewHasEnrollment ==
    \A v \in reviews :
        /\ v.student \in users
        /\ \E d \in enrollments : d.student = v.student /\ d.course = v.course

====
